---------------------------- MODULE Spec2Model ----------------------------
(***************************************************************************)
(* A model of PR3.py: the instruction table, the bit packer                *)
(* (encode_instruction / decode_instruction), the assembler                *)
(* (parse_csv_program / save_binary / assembly) and the interpreter        *)
(* (load_binary / interpret / save_csv).                                   *)
(*                                                                         *)
(* A word is a Python int that the packer keeps below 2^59; it is modelled *)
(* as its 64 bits, a function from 0..63 to {0,1}, because TLC's integers  *)
(* are 32 bits wide.  Field values are naturals below 2^31, as the data    *)
(* model says (unsigned integers).                                         *)
(*                                                                         *)
(* Three specifications share the variables:                               *)
(*   SpecCodec  encode_instruction then decode_instruction on one input    *)
(*   SpecAsm    assembly(src, out, test)                                   *)
(*   SpecRun    interpret(src, out, start, end)                            *)
(***************************************************************************)
EXTENDS Integers, Sequences, FiniteSets, TLC

VARIABLES
    cpc, cSpec, cValues, encRes, decRes,      \* SpecCodec
    apc, testMode, rowOps, curOp, fields,     \* SpecAsm
    asmProgram, outIdx, binFile, stdout,
    ipc, srcFile, program, progMemory,        \* SpecRun
    registers, ip, steps, winStart, winEnd, csvRows

codecVars == <<cpc, cSpec, cValues, encRes, decRes>>
asmVars == <<apc, testMode, rowOps, curOp, fields, asmProgram, outIdx, binFile, stdout>>
runVars == <<ipc, srcFile, program, progMemory, registers, ip, steps,
             winStart, winEnd, csvRows>>
vars == <<codecVars, asmVars, runVars>>

(***************************************************************************)
(* Bounds of the model.                                                    *)
(***************************************************************************)
\* Field values tried around a field's limit 2^width: 2^width - Spread .. 2^width + Spread - 1.
Spread == 1
\* The longest source (in rows) the assembler is given.
MaxRows == 2
\* The longest binary program (in words) the interpreter is given.
MaxProg == 2
\* The longest register window (end - start) the interpreter is asked for.
MaxWinLen == 2

(***************************************************************************)
(* Program constants.                                                      *)
(***************************************************************************)
WordBytes == 8
WordBits == 8 * WordBytes
NumRegisters == 2048

(***************************************************************************)
(* The instruction table.                                                  *)
(***************************************************************************)
Field(f, lo, hi) == [f |-> f, lo |-> lo, hi |-> hi]

\* The keys of COMMANDS in insertion order.
CommandNames == <<"LOAD_CONST", "LOAD_MEM", "STORE_MEM", "ROR">>

COMMANDS ==
    [n \in {"LOAD_CONST", "LOAD_MEM", "STORE_MEM", "ROR"} |->
        CASE n = "LOAD_CONST" ->
                [name |-> "LOAD_CONST", code |-> 57,
                 fields |-> <<Field("A", 0, 5), Field("B", 6, 19), Field("C", 20, 47)>>]
          [] n = "LOAD_MEM" ->
                [name |-> "LOAD_MEM", code |-> 46,
                 fields |-> <<Field("A", 0, 5), Field("B", 6, 19), Field("C", 20, 33)>>]
          [] n = "STORE_MEM" ->
                [name |-> "STORE_MEM", code |-> 11,
                 fields |-> <<Field("A", 0, 5), Field("B", 6, 19), Field("C", 20, 33)>>]
          [] n = "ROR" ->
                [name |-> "ROR", code |-> 10,
                 fields |-> <<Field("A", 0, 5), Field("B", 6, 19), Field("C", 20, 33),
                              Field("D", 34, 44), Field("E", 45, 58)>>]]

Mnemonics == DOMAIN COMMANDS

(***************************************************************************)
(* Integers as bits.                                                       *)
(***************************************************************************)
BitIdx == 0 .. (WordBits - 1)

ZeroWord == [i \in BitIdx |-> 0]

\* Bit k of the natural v (v < 2^31).
Bit(v, k) == IF k > 30 THEN 0 ELSE (v \div (2 ^ k)) % 2

\* word | (v << lo)
OrShift(word, v, lo) ==
    [i \in BitIdx |-> IF i >= lo /\ Bit(v, i - lo) = 1 THEN 1 ELSE word[i]]

RECURSIVE BitsValue(_, _, _)
\* (word >> lo) & ((1 << width) - 1), for width <= 30
BitsValue(word, lo, width) ==
    IF width = 0 THEN 0
    ELSE word[lo] + 2 * (IF lo + 1 < WordBits THEN BitsValue(word, lo + 1, width - 1) ELSE 0)

EmptyDict == [k \in {} |-> 0]

(***************************************************************************)
(* encode_instruction and decode_instruction.                              *)
(***************************************************************************)
Ok(word) == [ok |-> TRUE, word |-> word]
Fail(err) == [ok |-> FALSE, err |-> err]

\* A plausible slip: an off-by-one range check.
TooLargeOffByOne(v, width) == v > 2 ^ width

\* The range check of encode_instruction: the value does not fit the field.
TooLarge(v, width) == v >= 2 ^ width

RECURSIVE EncodeLoop(_, _, _, _)
EncodeLoop(spec, values, k, word) ==
    IF k > Len(spec.fields) THEN Ok(word)
    ELSE LET fd == spec.fields[k]
             width == fd.hi - fd.lo + 1
         IN  IF fd.f \notin DOMAIN values THEN Fail("KeyError")
             ELSE IF TooLarge(values[fd.f], width) THEN Fail("ValueError")
             ELSE EncodeLoop(spec, values, k + 1, OrShift(word, values[fd.f], fd.lo))

encode_instruction(spec, values) == EncodeLoop(spec, values, 1, ZeroWord)

RECURSIVE FindSpec(_, _)
\* The first spec of COMMANDS.values() whose code is the opcode; "" for None.
FindSpec(opcode, k) ==
    IF k > Len(CommandNames) THEN ""
    ELSE IF COMMANDS[CommandNames[k]].code = opcode THEN CommandNames[k]
    ELSE FindSpec(opcode, k + 1)

FieldNames(spec) == {spec.fields[k].f : k \in 1 .. Len(spec.fields)}

FieldOf(spec, f) == CHOOSE fd \in {spec.fields[k] : k \in 1 .. Len(spec.fields)} : fd.f = f

\* A plausible slip: the mask is one bit short.
ExtractFieldShort(word, fd) == BitsValue(word, fd.lo, fd.hi - fd.lo)

\* The extraction of one field in decode_instruction.
ExtractField(word, fd) == BitsValue(word, fd.lo, fd.hi - fd.lo + 1)

decode_instruction(word) ==
    LET opcode == BitsValue(word, 0, 6)
        name == FindSpec(opcode, 1)
    IN  IF name = "" THEN Fail("ValueError")
        ELSE [ok |-> TRUE, spec |-> name,
              fields |-> [f \in FieldNames(COMMANDS[name]) |->
                             ExtractField(word, FieldOf(COMMANDS[name], f))]]

(***************************************************************************)
(* SpecCodec: one call of encode_instruction, then decode_instruction on   *)
(* the word it returned.                                                   *)
(***************************************************************************)
\* The values tried for a field: small ones, the ones around its limit, and
\* for field A the four codes.
FieldSamples(fd) ==
    LET width == fd.hi - fd.lo + 1
    IN  {0, 5} \cup ((2 ^ width - Spread) .. (2 ^ width + Spread - 1))
        \cup (IF fd.f = "A" THEN {COMMANDS[n].code : n \in Mnemonics} ELSE {})

RECURSIVE SampleDicts(_, _)
\* The dicts over the first k fields of the spec, a field present or absent.
SampleDicts(spec, k) ==
    IF k = 0 THEN {EmptyDict}
    ELSE LET rest == SampleDicts(spec, k - 1)
         IN  rest \cup {d @@ (spec.fields[k].f :> v) : d \in rest, v \in FieldSamples(spec.fields[k])}

AsmIdle ==
    /\ apc = "idle" /\ testMode = FALSE /\ rowOps = <<>> /\ curOp = ""
    /\ fields = EmptyDict /\ asmProgram = <<>> /\ outIdx = 0
    /\ binFile = <<>> /\ stdout = <<>>

RunIdle ==
    /\ ipc = "idle" /\ srcFile = <<>> /\ program = <<>> /\ progMemory = <<>>
    /\ registers = <<>> /\ ip = 0 /\ steps = 0
    /\ winStart = 0 /\ winEnd = 0 /\ csvRows = <<>>

CodecIdle ==
    /\ cpc = "idle" /\ cSpec = "" /\ cValues = EmptyDict
    /\ encRes = Fail("none") /\ decRes = Fail("none")

CodecInit ==
    /\ cpc = "input"
    /\ cSpec \in Mnemonics
    /\ cValues \in SampleDicts(COMMANDS[cSpec], Len(COMMANDS[cSpec].fields))
    /\ encRes = Fail("none")
    /\ decRes = Fail("none")
    /\ AsmIdle /\ RunIdle

Encode ==
    /\ cpc = "input"
    /\ encRes' = encode_instruction(COMMANDS[cSpec], cValues)
    /\ cpc' = IF encRes'.ok THEN "encoded" ELSE "encode_failed"
    /\ UNCHANGED <<cSpec, cValues, decRes, asmVars, runVars>>

Decode ==
    /\ cpc = "encoded"
    /\ decRes' = decode_instruction(encRes.word)
    /\ cpc' = IF decRes'.ok THEN "decoded" ELSE "decode_failed"
    /\ UNCHANGED <<cSpec, cValues, encRes, asmVars, runVars>>

CodecNext == Encode \/ Decode

SpecCodec == CodecInit /\ [][CodecNext]_vars


(***************************************************************************)
(* The assembler: parse_csv_program, save_binary, assembly.                *)
(***************************************************************************)
\* A plausible slip: an unknown mnemonic falls back to a default spec.
LookupSpecLenient(op) ==
    IF op \in Mnemonics THEN [found |-> TRUE, spec |-> COMMANDS[op]]
    ELSE [found |-> TRUE, spec |-> COMMANDS["ROR"]]

\* spec = COMMANDS[op]: a KeyError when the mnemonic is not in the table.
LookupSpec(op) ==
    IF op \in Mnemonics THEN [found |-> TRUE, spec |-> COMMANDS[op]]
    ELSE [found |-> FALSE]

\* fields[key.strip()] = int(val)
SetField(d, key, val) == [k \in DOMAIN d \cup {key} |-> IF k = key THEN val ELSE d[k]]

HexDigits == <<"0", "1", "2", "3", "4", "5", "6", "7", "8", "9", "A", "B", "C", "D", "E", "F">>

\* f"{w:016X}": the 16 hexadecimal digits of the word, the most significant first.
HexString(w) == [k \in 1 .. 16 |-> HexDigits[BitsValue(w, 4 * (16 - k), 4) + 1]]

RECURSIVE ChopPairs(_)
\* The while loop of assembly: the last two characters make the next token.
ChopPairs(inbytes) ==
    IF Len(inbytes) = 0 THEN <<>>
    ELSE LET n == Len(inbytes)
             last2 == IF n >= 2 THEN inbytes[n - 1] \o inbytes[n] ELSE inbytes[n]
             rest == IF n >= 2 THEN SubSeq(inbytes, 1, n - 2) ELSE <<>>
         IN  <<"0x" \o last2>> \o ChopPairs(rest)

RECURSIVE ForwardPairs(_)
ForwardPairs(inbytes) ==
    IF Len(inbytes) < 2 THEN <<>>
    ELSE <<"0x" \o inbytes[1] \o inbytes[2]>> \o ForwardPairs(SubSeq(inbytes, 3, Len(inbytes)))

\* A plausible slip: the digits are paired from the front, not from the back.
ByteTokensForward(w) == ForwardPairs(HexString(w))

\* The tokens assembly prints for one word in test mode.
ByteTokens(w) == ChopPairs(HexString(w))

\* w.to_bytes(8, "little")
to_bytes(w) == [k \in 1 .. WordBytes |-> BitsValue(w, 8 * (k - 1), 8)]

\* The mnemonics and the field=value tokens the source rows are drawn from.
SourceOps == Mnemonics \cup {"NOP"}
SourceTokens == {<<"A", 10>>, <<"B", 5>>, <<"B", 16384>>, <<"C", 7>>, <<"D", 3>>, <<"E", 4>>}

AsmInit ==
    /\ apc = "parse"
    /\ testMode \in BOOLEAN
    /\ rowOps = <<>> /\ curOp = "" /\ fields = EmptyDict
    /\ asmProgram = <<>> /\ outIdx = 0
    /\ binFile = <<>> /\ stdout = <<>>
    /\ CodecIdle /\ RunIdle

\* The reader yields a row: its mnemonic is resolved and field A is set.
ReadRow ==
    /\ apc = "parse"
    /\ Len(rowOps) < MaxRows
    /\ \E op \in SourceOps :
          LET r == LookupSpec(op)
          IN  /\ rowOps' = Append(rowOps, op)
              /\ IF r.found
                 THEN /\ apc' = "tokens"
                      /\ curOp' = r.spec.name
                      /\ fields' = ("A" :> r.spec.code)
                 ELSE /\ apc' = "unknown_mnemonic"
                      /\ UNCHANGED <<curOp, fields>>
    /\ UNCHANGED <<testMode, asmProgram, outIdx, binFile, stdout, codecVars, runVars>>

\* The next part of the row holds "=": it is split and stored.
AssignToken ==
    /\ apc = "tokens"
    /\ \E t \in SourceTokens : fields' = SetField(fields, t[1], t[2])
    /\ UNCHANGED <<apc, testMode, rowOps, curOp, asmProgram, outIdx, binFile, stdout,
                   codecVars, runVars>>

\* The parts end, or the next part holds no "=": the row is encoded.
EndRow ==
    /\ apc = "tokens"
    /\ LET r == encode_instruction(COMMANDS[curOp], fields)
       IN  IF r.ok
           THEN /\ asmProgram' = Append(asmProgram, r.word)
                /\ apc' = "parse"
           ELSE /\ apc' = "encode_failed"
                /\ UNCHANGED asmProgram
    /\ UNCHANGED <<testMode, rowOps, curOp, fields, outIdx, binFile, stdout,
                   codecVars, runVars>>

\* The reader is exhausted: parse_csv_program returns and assembly picks its output.
EndOfSource ==
    /\ apc = "parse"
    /\ apc' = IF testMode THEN (IF Len(asmProgram) = 0 THEN "done" ELSE "dump") ELSE "save"
    /\ outIdx' = 0
    /\ UNCHANGED <<testMode, rowOps, curOp, fields, asmProgram, binFile, stdout,
                   codecVars, runVars>>

\* Test mode: one line of byte tokens per word.
DumpWord ==
    /\ apc = "dump"
    /\ outIdx < Len(asmProgram)
    /\ stdout' = Append(stdout, ByteTokens(asmProgram[outIdx + 1]))
    /\ outIdx' = outIdx + 1
    /\ apc' = IF outIdx + 1 = Len(asmProgram) THEN "done" ELSE "dump"
    /\ UNCHANGED <<testMode, rowOps, curOp, fields, asmProgram, binFile,
                   codecVars, runVars>>

\* save_binary: the next word is written as 8 little-endian bytes.
WriteWord ==
    /\ apc = "save"
    /\ outIdx < Len(asmProgram)
    /\ binFile' = binFile \o to_bytes(asmProgram[outIdx + 1])
    /\ outIdx' = outIdx + 1
    /\ UNCHANGED <<apc, testMode, rowOps, curOp, fields, asmProgram, stdout,
                   codecVars, runVars>>

\* The file is closed and its size is printed.
PrintSize ==
    /\ apc = "save"
    /\ outIdx = Len(asmProgram)
    /\ stdout' = Append(stdout, [text |-> "The file size is: ", size |-> Len(binFile),
                                 unit |-> "bytes"])
    /\ apc' = "done"
    /\ UNCHANGED <<testMode, rowOps, curOp, fields, asmProgram, outIdx, binFile,
                   codecVars, runVars>>

AsmNext ==
    \/ ReadRow
    \/ AssignToken
    \/ EndRow
    \/ EndOfSource
    \/ DumpWord
    \/ WriteWord
    \/ PrintSize

SpecAsm == AsmInit /\ [][AsmNext]_vars


(***************************************************************************)
(* The interpreter: load_binary, interpret, save_csv.                      *)
(***************************************************************************)
\* int.from_bytes(data, byteorder="little", signed=False), data of 8 bytes
from_bytes(data) == [i \in BitIdx |-> Bit(data[(i \div 8) + 1], i % 8)]

RECURSIVE ReadWords(_, _)
\* The read loop of load_binary from byte offset pos.
ReadWords(bytes, pos) ==
    IF pos >= Len(bytes) THEN [ok |-> TRUE, words |-> <<>>]
    ELSE IF Len(bytes) - pos < WordBytes THEN Fail("ValueError")
    ELSE LET rest == ReadWords(bytes, pos + WordBytes)
         IN  IF rest.ok
             THEN [ok |-> TRUE,
                   words |-> <<from_bytes(SubSeq(bytes, pos + 1, pos + WordBytes))>> \o rest.words]
             ELSE rest

RECURSIVE ReadWordsTruncating(_, _)
ReadWordsTruncating(bytes, pos) ==
    IF Len(bytes) - pos < WordBytes THEN [ok |-> TRUE, words |-> <<>>]
    ELSE LET rest == ReadWordsTruncating(bytes, pos + WordBytes)
         IN  [ok |-> TRUE,
              words |-> <<from_bytes(SubSeq(bytes, pos + 1, pos + WordBytes))>> \o rest.words]

\* A plausible slip: an incomplete last word is dropped silently.
load_binary_truncating(bytes) == ReadWordsTruncating(bytes, 0)

load_binary(bytes) == ReadWords(bytes, 0)

\* Python's list index: i in -len..len-1 is an element, anything else an IndexError.
ValidIndex(i) == i >= 0 - NumRegisters /\ i < NumRegisters
Slot(i) == IF i < 0 THEN i + NumRegisters ELSE i

ZeroRegisters == [i \in 0 .. (NumRegisters - 1) |-> 0]

RegsOk(regs) == [ok |-> TRUE, regs |-> regs]

\* A plausible slip: STORE_MEM copies in LOAD_MEM's direction.
ExecuteInstrStoreReversed(regs, ins) ==
    LET B == ins.fields["B"]
        C == ins.fields["C"]
    IN  CASE ins.spec = "LOAD_CONST" ->
                IF ValidIndex(B) THEN RegsOk([regs EXCEPT ![Slot(B)] = C]) ELSE Fail("IndexError")
          [] ins.spec \in {"LOAD_MEM", "STORE_MEM"} ->
                IF ValidIndex(C) /\ ValidIndex(B)
                THEN RegsOk([regs EXCEPT ![Slot(B)] = regs[Slot(C)]])
                ELSE Fail("IndexError")
          [] OTHER -> RegsOk(regs)

\* A plausible slip: ROR given a meaning (a shift of registers[C] into registers[B]).
ExecuteInstrRorActs(regs, ins) ==
    LET B == ins.fields["B"]
        C == ins.fields["C"]
    IN  CASE ins.spec = "LOAD_CONST" ->
                IF ValidIndex(B) THEN RegsOk([regs EXCEPT ![Slot(B)] = C]) ELSE Fail("IndexError")
          [] ins.spec = "LOAD_MEM" ->
                IF ValidIndex(C) /\ ValidIndex(B)
                THEN RegsOk([regs EXCEPT ![Slot(B)] = regs[Slot(C)]])
                ELSE Fail("IndexError")
          [] ins.spec = "STORE_MEM" ->
                IF ValidIndex(B) /\ ValidIndex(C)
                THEN RegsOk([regs EXCEPT ![Slot(C)] = regs[Slot(B)]])
                ELSE Fail("IndexError")
          [] OTHER ->
                IF ValidIndex(B) /\ ValidIndex(C)
                THEN RegsOk([regs EXCEPT ![Slot(B)] = regs[Slot(C)] \div 2])
                ELSE Fail("IndexError")

\* The body of the execute loop of interpret for one decoded instruction.
ExecuteInstr(regs, ins) ==
    LET B == ins.fields["B"]
        C == ins.fields["C"]
    IN  CASE COMMANDS[ins.spec].code = 57 ->
                IF ValidIndex(B) THEN RegsOk([regs EXCEPT ![Slot(B)] = C]) ELSE Fail("IndexError")
          [] COMMANDS[ins.spec].code = 46 ->
                IF ValidIndex(C) /\ ValidIndex(B)
                THEN RegsOk([regs EXCEPT ![Slot(B)] = regs[Slot(C)]])
                ELSE Fail("IndexError")
          [] COMMANDS[ins.spec].code = 11 ->
                IF ValidIndex(B) /\ ValidIndex(C)
                THEN RegsOk([regs EXCEPT ![Slot(C)] = regs[Slot(B)]])
                ELSE Fail("IndexError")
          [] OTHER -> RegsOk(regs)

RECURSIVE WriteRows(_, _, _)
\* The loop of save_csv over range(i, stop): the rows written, and whether
\* memory[i] raised before the range was exhausted.
WriteRows(i, stop, memory) ==
    IF i >= stop THEN [ok |-> TRUE, rows |-> <<>>]
    ELSE IF ~ValidIndex(i) THEN [ok |-> FALSE, rows |-> <<>>]
    ELSE LET rest == WriteRows(i + 1, stop, memory)
         IN  [ok |-> rest.ok, rows |-> <<(<<i, memory[Slot(i)]>>)>> \o rest.rows]

\* A plausible slip: range(start, end), the window's last index left out.
save_csv_exclusive(start, end, memory) == WriteRows(start, end, memory)

save_csv(start, end, memory) == WriteRows(start, end + 1, memory)

\* The words the binary programs are made of: instructions of every kind with
\* register operands inside and outside the register file, and a word whose
\* low 6 bits are no code.
SampleInstrs ==
    {<<"LOAD_CONST", ("A" :> 57 @@ "B" :> b @@ "C" :> c)>> : b \in {5, NumRegisters}, c \in {7, 100}}
    \cup {<<"LOAD_MEM", ("A" :> 46 @@ "B" :> 6 @@ "C" :> c)>> : c \in {5, NumRegisters}}
    \cup {<<"STORE_MEM", ("A" :> 11 @@ "B" :> b @@ "C" :> 9)>> : b \in {5, NumRegisters}}
    \cup {<<"ROR", ("A" :> 10 @@ "B" :> b @@ "C" :> 6 @@ "D" :> 1 @@ "E" :> 1)>> :
             b \in {5, NumRegisters}}

SampleWords ==
    {encode_instruction(COMMANDS[x[1]], x[2]).word : x \in SampleInstrs} \cup {ZeroWord}

RECURSIVE SamplePrograms(_)
SamplePrograms(n) ==
    IF n = 0 THEN {<<>>}
    ELSE LET shorter == SamplePrograms(n - 1)
         IN  shorter \cup {Append(p, w) : p \in {q \in shorter : Len(q) = n - 1}, w \in SampleWords}

RECURSIVE save_binary(_)
\* save_binary: every word as 8 little-endian bytes.
save_binary(prog) ==
    IF prog = <<>> THEN <<>> ELSE to_bytes(Head(prog)) \o save_binary(Tail(prog))

\* Bytes after the last whole word of a file.
SampleTails == {<<>>, <<57, 1, 0>>}

\* The first indices of the windows asked for: around both ends of the file
\* and of Python's negative indices.
WindowStarts ==
    {0 - NumRegisters - 2, 0 - NumRegisters - 1, 0 - NumRegisters, -2, -1, 0, 5,
     NumRegisters - 2, NumRegisters - 1, NumRegisters, NumRegisters + 1}

RunInit ==
    /\ ipc = "load"
    /\ \E p \in SamplePrograms(MaxProg), t \in SampleTails : srcFile = save_binary(p) \o t
    /\ program = <<>> /\ progMemory = <<>>
    /\ registers = ZeroRegisters
    /\ ip = 0 /\ steps = 0
    /\ winStart = 0 /\ winEnd = 0 /\ csvRows = <<>>
    /\ CodecIdle /\ AsmIdle

\* program = load_binary(src)
Load ==
    /\ ipc = "load"
    /\ LET r == load_binary(srcFile)
       IN  IF r.ok
           THEN /\ program' = r.words
                /\ ipc' = "decode"
           ELSE /\ ipc' = "framing_error"
                /\ UNCHANGED program
    /\ UNCHANGED <<srcFile, progMemory, registers, ip, steps, winStart, winEnd, csvRows,
                   codecVars, asmVars>>

\* The decode pass, one word per step.
DecodeWord ==
    /\ ipc = "decode"
    /\ ip < Len(program)
    /\ LET d == decode_instruction(program[ip + 1])
       IN  IF d.ok
           THEN /\ progMemory' = Append(progMemory, [spec |-> d.spec, fields |-> d.fields])
                /\ ip' = ip + 1
                /\ UNCHANGED ipc
           ELSE /\ ipc' = "unknown_opcode"
                /\ UNCHANGED <<progMemory, ip>>
    /\ UNCHANGED <<srcFile, program, registers, steps, winStart, winEnd, csvRows,
                   codecVars, asmVars>>

\* The decode pass is over: the execute pass starts at the first instruction.
DecodeDone ==
    /\ ipc = "decode"
    /\ ip = Len(program)
    /\ ipc' = "execute"
    /\ ip' = 0
    /\ UNCHANGED <<srcFile, program, progMemory, registers, steps, winStart, winEnd, csvRows,
                   codecVars, asmVars>>

\* The execute pass, one instruction per step.
ExecStep ==
    /\ ipc = "execute"
    /\ ip < Len(progMemory)
    /\ LET r == ExecuteInstr(registers, progMemory[ip + 1])
       IN  IF r.ok
           THEN /\ registers' = r.regs
                /\ ip' = ip + 1
                /\ steps' = steps + 1
                /\ UNCHANGED ipc
           ELSE /\ ipc' = "execute_crashed"
                /\ UNCHANGED <<registers, ip, steps>>
    /\ UNCHANGED <<srcFile, program, progMemory, winStart, winEnd, csvRows,
                   codecVars, asmVars>>

\* The execute pass is over: the output stage is reached.
ExecDone ==
    /\ ipc = "execute"
    /\ ip = Len(progMemory)
    /\ ipc' = "output"
    /\ UNCHANGED <<srcFile, program, progMemory, registers, ip, steps, winStart, winEnd,
                   csvRows, codecVars, asmVars>>

\* save_csv(out, start, end, registers) on the caller's window.
Output ==
    /\ ipc = "output"
    /\ \E s \in WindowStarts, n \in -1 .. MaxWinLen :
          LET r == save_csv(s, s + n, registers)
          IN  /\ winStart' = s
              /\ winEnd' = s + n
              /\ csvRows' = r.rows
              /\ ipc' = IF r.ok THEN "done" ELSE "output_crashed"
    /\ UNCHANGED <<srcFile, program, progMemory, registers, ip, steps, codecVars, asmVars>>

RunNext ==
    \/ Load
    \/ DecodeWord
    \/ DecodeDone
    \/ ExecStep
    \/ ExecDone
    \/ Output

SpecRun == RunInit /\ [][RunNext]_vars


(***************************************************************************)
(* The claims.                                                             *)
(***************************************************************************)
Codes == {COMMANDS[n].code : n \in Mnemonics}

WidthOf(spec, f) == FieldOf(spec, f).hi - FieldOf(spec, f).lo + 1

\* Every declared field of cSpec has a value, and each value fits its field.
RespectsWidths ==
    /\ DOMAIN cValues = FieldNames(COMMANDS[cSpec])
    /\ \A f \in DOMAIN cValues :
          cValues[f] >= 0 /\ cValues[f] < 2 ^ WidthOf(COMMANDS[cSpec], f)

RoundTrips ==
    /\ cpc \notin {"encode_failed", "decode_failed"}
    /\ cpc = "decoded" => (decRes.spec = cSpec /\ decRes.fields = cValues)

\* C1 as stated: for every spec and every assignment of values that respect the
\* field widths, field A included, encoding succeeds and decoding the word
\* gives back the same spec and the same field values.
C1_RoundTripAnyA == RespectsWidths => RoundTrips

\* C1 as amended: for every spec and every assignment of values that respect the
\* field widths and whose field A is the spec's code, encoding succeeds and
\* decoding the word gives back the same spec and the same field values.
C1_RoundTrip == (RespectsWidths /\ cValues["A"] = COMMANDS[cSpec].code) => RoundTrips

C1_Witness ==
    /\ cpc = "decoded"
    /\ cSpec = "ROR"
    /\ RespectsWidths
    /\ cValues["A"] = 10
    /\ cValues["B"] = 5
    /\ cValues["E"] = 2 ^ 14 - 1
    /\ decRes.fields["E"] = 2 ^ 14 - 1

\* C2 as stated: every word the assembler has produced for a row has low 6 bits
\* equal to the code of the spec resolved from that row's mnemonic, whatever
\* field=value tokens the row carries.
C2_OpcodeIsolation ==
    \A i \in 1 .. Len(asmProgram) :
        BitsValue(asmProgram[i], 0, 6) = COMMANDS[rowOps[i]].code

\* Some declared field that is present holds a value of at least 2^width.
HasOverflow ==
    \E f \in FieldNames(COMMANDS[cSpec]) \cap DOMAIN cValues :
        cValues[f] >= 2 ^ WidthOf(COMMANDS[cSpec], f)

\* C3: when any field of the spec is given a value >= 2^width, whatever the other
\* fields hold (in range, too large or missing), encode_instruction fails and
\* returns no word.
C3_WidthEnforcement ==
    (cpc # "input" /\ HasOverflow) => (cpc = "encode_failed" /\ ~encRes.ok)

C3_Witness ==
    /\ cpc = "encode_failed"
    /\ cSpec = "ROR"
    /\ DOMAIN cValues = {"A", "B", "C", "D", "E"}
    /\ cValues["A"] = 10 /\ cValues["B"] = 5 /\ cValues["C"] = 5 /\ cValues["D"] = 5
    /\ cValues["E"] = 2 ^ 14

Ins(name, b, c) ==
    [spec |-> name, fields |-> ("A" :> COMMANDS[name].code @@ "B" :> b @@ "C" :> c)]

\* The register file the claim gives after one instruction.
ClaimedEffect(regs, ins) ==
    CASE ins.spec = "LOAD_CONST" -> [regs EXCEPT ![ins.fields["B"]] = ins.fields["C"]]
      [] ins.spec = "LOAD_MEM" -> [regs EXCEPT ![ins.fields["B"]] = regs[ins.fields["C"]]]
      [] ins.spec = "STORE_MEM" -> [regs EXCEPT ![ins.fields["C"]] = regs[ins.fields["B"]]]

ExecutedOne ==
    /\ ipc = "execute"
    /\ ip' = ip + 1
    /\ progMemory[ip + 1].spec \in {"LOAD_CONST", "LOAD_MEM", "STORE_MEM"}

Finished == ipc \in {"output", "done", "output_crashed", "execute_crashed"}

C4_Examples ==
    /\ (Finished /\ progMemory = <<Ins("LOAD_CONST", 5, 100), Ins("LOAD_MEM", 6, 5)>>)
          => (ipc # "execute_crashed" /\ registers[6] = 100 /\ registers[5] = 100)
    /\ (Finished /\ progMemory = <<Ins("LOAD_CONST", 5, 7), Ins("STORE_MEM", 5, 9)>>)
          => (ipc # "execute_crashed" /\ registers[9] = 7)

\* C4: from an all-zero register file, every executed LOAD_CONST sets
\* registers[B] to C, every executed LOAD_MEM sets registers[B] to the current
\* registers[C], every executed STORE_MEM sets registers[C] to the current
\* registers[B], each leaving every other register as it was; and the two
\* example programs end with register 6 = register 5 = 100 and register 9 = 7.
C4_ExecuteSemantics ==
    /\ [][ExecutedOne => registers' = ClaimedEffect(registers, progMemory[ip + 1])]_vars
    /\ []C4_Examples

C4_Witness ==
    /\ ipc = "output"
    /\ progMemory = <<Ins("LOAD_CONST", 5, 7), Ins("STORE_MEM", 5, 9)>>
    /\ registers[9] = 7
    /\ registers[5] = 7
    /\ registers[6] = 0

\* C5: once a row has named a mnemonic that is not in the table, assembly has
\* failed and nothing has been output: the binary file holds no byte and no
\* line has been printed, in either mode.
C5_NoOutputOnUnknownMnemonic ==
    (\E i \in 1 .. Len(rowOps) : rowOps[i] \notin Mnemonics)
        => (apc = "unknown_mnemonic" /\ binFile = <<>> /\ stdout = <<>>)

C5_Witness ==
    /\ apc = "unknown_mnemonic"
    /\ Len(asmProgram) >= 1
    /\ rowOps[Len(rowOps)] = "NOP"
    /\ ~testMode

WholeWords == Len(srcFile) \div WordBytes

\* The low 6 bits of the k-th word of the file, read off its first byte.
FileOpcode(k) == srcFile[WordBytes * (k - 1) + 1] % 64

BadInput ==
    \/ Len(srcFile) % WordBytes # 0
    \/ \E k \in 1 .. WholeWords : FileOpcode(k) \notin Codes

\* C6: when the binary input's length is not a multiple of 8, or some word of it
\* has low 6 bits that are no spec's code, the run never gets past loading and
\* decoding: no instruction is executed, every register stays zero and no dump
\* row is written, whatever valid words precede the bad one.
C6_NoPartialInterpretation ==
    BadInput =>
        /\ ipc \in {"load", "decode", "framing_error", "unknown_opcode"}
        /\ steps = 0
        /\ registers = ZeroRegisters
        /\ csvRows = <<>>

C6_Witness ==
    /\ ipc = "unknown_opcode"
    /\ Len(progMemory) >= 1
    /\ progMemory[1].spec = "LOAD_CONST"
    /\ Len(srcFile) % WordBytes = 0

\* The k-th byte of a word, byte 0 the least significant.
ByteOf(w, k) == BitsValue(w, 8 * k, 8)

HexToken(b) == "0x" \o HexDigits[(b \div 16) + 1] \o HexDigits[(b % 16) + 1]

DumpLines == IF testMode THEN 1 .. Len(stdout) ELSE {}

\* C7 as stated: in test mode every printed line is 8 tokens "0xHH", the first
\* being bits 56..63 of the word and the last bits 0..7.
C7_DumpMostSignificantFirst ==
    \A i \in DumpLines :
        /\ Len(stdout[i]) = 8
        /\ \A j \in 1 .. 8 : stdout[i][j] = HexToken(ByteOf(asmProgram[i], 8 - j))

\* C7 as amended: in test mode every printed line is 8 tokens "0xHH", the first
\* being bits 0..7 of the word and the last bits 56..63.
C7_DumpLeastSignificantFirst ==
    \A i \in DumpLines :
        /\ Len(stdout[i]) = 8
        /\ \A j \in 1 .. 8 : stdout[i][j] = HexToken(ByteOf(asmProgram[i], j - 1))

C7_Witness ==
    /\ testMode
    /\ apc = "done"
    /\ Len(stdout) = 2
    /\ rowOps[1] = "ROR"
    /\ stdout[1][1] = "0x4A"
    /\ stdout[1][8] # "0x4A"

AllDecode ==
    /\ Len(srcFile) % WordBytes = 0
    /\ \A k \in 1 .. WholeWords : FileOpcode(k) \in Codes

\* C8 as stated: for every program whose words all decode, the execute pass
\* never stops early: the count of executed instructions follows the program
\* counter, and the output stage is reached after exactly len(program) steps.
C8_StraightLineTermination ==
    AllDecode =>
        /\ ipc # "execute_crashed"
        /\ ipc = "execute" => steps = ip
        /\ ipc \in {"output", "done", "output_crashed"} => steps = WholeWords

Dumped == ipc \in {"done", "output_crashed"}

RowsOf(first, last) ==
    [k \in 1 .. (last - first + 1) |->
        <<first + k - 1, registers[(first + k - 1) % NumRegisters]>>]

\* C9 as stated, read for the windows that hold an index (start <= end): every
\* window not inside [0, 2047] crashes the run, and a window inside it gives
\* one row (index, value) per index in ascending order.
C9_OutOfRangeWindowCrashes ==
    (Dumped /\ winStart <= winEnd) =>
        IF winStart >= 0 /\ winEnd <= NumRegisters - 1
        THEN ipc = "done" /\ csvRows = RowsOf(winStart, winEnd)
        ELSE ipc = "output_crashed"

\* C9 as amended: every non-empty window (start <= end) that holds an index
\* below -2048 or above 2047 crashes the run; every other window completes
\* with one row (index, value) per index in ascending order, the value of a
\* negative index i being register 2048 + i, so that a window inside [0, 2047]
\* gives one row (i, registers[i]) per index.
C9_WindowUnchecked ==
    Dumped =>
        IF winStart <= winEnd /\ (winStart < 0 - NumRegisters \/ winEnd > NumRegisters - 1)
        THEN ipc = "output_crashed"
        ELSE ipc = "done" /\ csvRows = RowsOf(winStart, winEnd)

C9_Witness ==
    /\ ipc = "output_crashed"
    /\ winStart = NumRegisters - 1
    /\ winEnd = NumRegisters
    /\ Len(csvRows) = 1
    /\ registers[5] = 100

\* C10: executing a decoded ROR, whatever its fields hold, changes no register
\* and raises nothing: the run stays in the execute pass, one instruction on.
C10_RorNoOp ==
    [][(ipc = "execute" /\ ip < Len(progMemory) /\ progMemory[ip + 1].spec = "ROR")
          => (registers' = registers /\ ipc' = "execute" /\ ip' = ip + 1)]_vars

C10_Witness ==
    /\ ipc = "execute"
    /\ ip = 2
    /\ progMemory[2].spec = "ROR"
    /\ progMemory[2].fields["B"] = NumRegisters
    /\ registers[5] = 7

=============================================================================
